---- MODULE Spec2Model ----
(***************************************************************************)
(* Model of sirius-quickstart: the shuffle gate (src/src/shuffle_api.rs),  *)
(* the standalone circuit and its prover harness (MyCircuit, test_prover)  *)
(* and the fold driver with its step circuit (src/src/main.rs).            *)
(*                                                                         *)
(* Field elements are modelled as naturals; a selector multiplies by 0 or  *)
(* 1, so no reduction modulo the field prime is ever needed.  The proving  *)
(* engine (halo2 / sirius) is an external crate: its shuffle argument is   *)
(* modelled by what it decides (equality of the two multisets of tuple     *)
(* values over the rows of the table), its fallible operations by their    *)
(* outcome.                                                                *)
(***************************************************************************)
EXTENDS Integers, Sequences, FiniteSets, TLC

\* ------------------------------------------------------------ bounds
\* longest column of a standalone circuit
MaxLen == 2
\* rows of the primary table kept for the step circuit (the real table has
\* 2^PRIMARY_CIRCUIT_TABLE_SIZE rows; rows past the data are never written)
MainRows == 5

\* ------------------------------------------------------------ program constants
FOLD_STEP_COUNT == 5
A1 == 1

\* field elements a standalone circuit is built from
Vals == {0, 1}

VARIABLES
  entry,     \* which program runs: "test_prover" or "main"
  circuit,   \* MyCircuit / MyStepCircuit: the four data vectors
  table,     \* the assignment being synthesized: columns, selectors
  pc,        \* position inside test_prover
  accepted,  \* test_prover's `accepted`: "none" until computed
  stage,     \* fold driver: how far main has come
  keys,      \* commitment keys acquired so far (0..2)
  step,      \* fold steps that have succeeded
  failedAt,  \* the stage the run died in ("" while alive)
  engineErr, \* TRUE once an engine or key-cache operation failed on its own
  calls,     \* engine operations main has called, in order
  log,       \* lines main has printed, in order
  cb,        \* position inside synthesize_step while the engine runs it
  ret        \* what synthesize_step handed back

vars == <<entry, circuit, table, pc, accepted, stage, keys, step, failedAt,
          engineErr, calls, log, cb, ret>>

driverVars == <<stage, keys, step, failedAt, engineErr, calls, log, cb, ret>>
proverVars == <<pc, accepted>>

\* ------------------------------------------------------------ helpers
Min(a, b) == IF a <= b THEN a ELSE b

SeqsUpTo(S, n) == UNION {[1..m -> S] : m \in 0..n}

\* ------------------------------------------------------------ the table
Rows(t) == DOMAIN t.s_input

\* a fresh assignment of n rows: cells read as zero, selectors off
BlankTable(n) ==
  [input_0   |-> [r \in 0..(n-1) |-> 0],
   input_1   |-> [r \in 0..(n-1) |-> 0],
   shuffle_0 |-> [r \in 0..(n-1) |-> 0],
   shuffle_1 |-> [r \in 0..(n-1) |-> 0],
   s_input   |-> [r \in 0..(n-1) |-> FALSE],
   s_shuffle |-> [r \in 0..(n-1) |-> FALSE],
   a_input_0 |-> {}, a_input_1 |-> {}, a_shuffle_0 |-> {}, a_shuffle_1 |-> {}]

\* query_selector: an enabled selector evaluates to 1, a disabled one to 0
Sel(b) == IF b THEN 1 ELSE 0

\* ------------------------------------------------------------ the shuffle gate
\* the two selectors mixed up: the input side scaled by s_shuffle
InputExprsWrongSelector(t, r) ==
  <<Sel(t.s_shuffle[r]) * t.input_0[r], Sel(t.s_shuffle[r]) * t.input_1[r]>>

\* the input side of the shuffle: (s_input * input_0, s_input * input_1) at row r
InputExprs(t, r) ==
  <<Sel(t.s_input[r]) * t.input_0[r], Sel(t.s_input[r]) * t.input_1[r]>>

\* a slip a gate like this invites: the two shuffle columns paired crosswise
ShuffleExprsCrossed(t, r) ==
  <<Sel(t.s_shuffle[r]) * t.shuffle_1[r], Sel(t.s_shuffle[r]) * t.shuffle_0[r]>>

\* the shuffle side: (s_shuffle * shuffle_0, s_shuffle * shuffle_1) at row r
ShuffleExprs(t, r) ==
  <<Sel(t.s_shuffle[r]) * t.shuffle_0[r], Sel(t.s_shuffle[r]) * t.shuffle_1[r]>>

\* the tuples each side presents to the argument, one per row of the table
InputTuples(t) == {InputExprs(t, r) : r \in Rows(t)}

ShuffleTuples(t) == {ShuffleExprs(t, r) : r \in Rows(t)}

\* how many rows present the tuple p on each side
InputOccurrences(t, p) == Cardinality({r \in Rows(t) : InputExprs(t, r) = p})

ShuffleOccurrences(t, p) == Cardinality({r \in Rows(t) : ShuffleExprs(t, r) = p})

\* a lookup instead of a shuffle: membership, multiplicities ignored
ShuffleAsLookup(t) == InputTuples(t) \subseteq ShuffleTuples(t)

\* meta.shuffle("shuffle", ...): the argument holds exactly when the input
\* tuples and the shuffle tuples, taken over every row, are the same multiset
ShuffleHolds(t) ==
  \A p \in InputTuples(t) \cup ShuffleTuples(t) :
     InputOccurrences(t, p) = ShuffleOccurrences(t, p)

\* ------------------------------------------------------------ synthesis
\* one pass of the "load inputs" loop body at row i (element i+1 of the data)
AssignInputRow(c, t, i) ==
  [t EXCEPT !.input_0[i] = c.input_0[i + 1], !.a_input_0 = @ \cup {i},
            !.input_1[i] = c.input_1[i + 1], !.a_input_1 = @ \cup {i},
            !.s_input[i] = TRUE]

\* one pass of the "load shuffles" loop body at row i
AssignShuffleRow(c, t, i) ==
  [t EXCEPT !.shuffle_0[i] = c.shuffle_0[i + 1], !.a_shuffle_0 = @ \cup {i},
            !.shuffle_1[i] = c.shuffle_1[i + 1], !.a_shuffle_1 = @ \cup {i},
            !.s_shuffle[i] = TRUE]

\* for (i, (input_0, input_1)) in input_0.iter().zip(input_1.iter()).enumerate():
\* the loop stops at the shorter vector; a row outside the table makes the
\* first assignment of the pass fail and `?` leaves the region
RECURSIVE LoadInputsLoop(_, _, _)
LoadInputsLoop(c, t, i) ==
  IF i >= Min(Len(c.input_0), Len(c.input_1)) THEN [ok |-> TRUE, table |-> t]
  ELSE IF i \notin Rows(t) THEN [ok |-> FALSE, table |-> t]
  ELSE LoadInputsLoop(c, AssignInputRow(c, t, i), i + 1)

RECURSIVE LoadShufflesLoop(_, _, _)
LoadShufflesLoop(c, t, i) ==
  IF i >= Min(Len(c.shuffle_0), Len(c.shuffle_1)) THEN [ok |-> TRUE, table |-> t]
  ELSE IF i \notin Rows(t) THEN [ok |-> FALSE, table |-> t]
  ELSE LoadShufflesLoop(c, AssignShuffleRow(c, t, i), i + 1)

\* the loop run over input_0 alone: the advice column is written for every
\* element of input_0, the fixed column and the selector only where paired
LoadInputsUnzipped(c, t) ==
  LET r == LoadInputsLoop(c, t, 0)
      extra == {i \in Rows(t) : i < Len(c.input_0)}
  IN  [ok |-> r.ok,
       table |-> [r.table EXCEPT
                    !.a_input_0 = @ \cup extra,
                    !.input_0 = [i \in Rows(t) |->
                                   IF i \in extra THEN c.input_0[i + 1] ELSE @[i]]]]

\* region "load inputs"
LoadInputs(c, t) == LoadInputsLoop(c, t, 0)

\* region "load shuffles"
LoadShuffles(c, t) == LoadShufflesLoop(c, t, 0)

\* ------------------------------------------------------------ data
\* two columns of one side: equally long, or one of them one element longer
\* (elements past the shorter column are never read, so the surplus is a 0)
ColumnPairs ==
  {cp \in SeqsUpTo(Vals, MaxLen) \X SeqsUpTo(Vals, MaxLen) :
     \/ Len(cp[1]) = Len(cp[2])
     \/ Len(cp[1]) = Len(cp[2]) + 1 /\ cp[1][Len(cp[1])] = 0
     \/ Len(cp[2]) = Len(cp[1]) + 1 /\ cp[2][Len(cp[2])] = 0}

Circuits ==
  {[input_0 |-> l[1], input_1 |-> l[2], shuffle_0 |-> r[1], shuffle_1 |-> r[2]] :
     l \in ColumnPairs, r \in ColumnPairs}

\* the step circuit main builds
MainCircuit ==
  [input_0   |-> <<1, 2, 4, 1>>,
   input_1   |-> <<10, 20, 40, 10>>,
   shuffle_0 |-> <<4, 1, 1, 2>>,
   shuffle_1 |-> <<40, 10, 10, 20>>]

\* table sizes test_prover is tried with: one row short of the longest data, or enough
Capacities == {n \in {MaxLen - 1, MaxLen} : n >= 0}

Line(m, i) == [msg |-> m, step |-> i]

NoReturn == [kind |-> "none", z_out |-> <<>>]

Init ==
  /\ entry \in {"test_prover", "main"}
  /\ circuit \in (IF entry = "main" THEN {MainCircuit} ELSE Circuits)
  /\ table = BlankTable(0)
  /\ pc = IF entry = "main" THEN "main" ELSE "start"
  /\ accepted = "none"
  /\ stage = "Uninitialized"
  /\ keys = 0
  /\ step = 0
  /\ failedAt = ""
  /\ engineErr = FALSE
  /\ calls = <<>>
  /\ log = <<>>
  /\ cb = "idle"
  /\ ret = NoReturn

\* ------------------------------------------------------------ test_prover
\* ParamsIPA::new(k): fixes how many rows the table has
NewParams ==
  /\ pc = "start"
  /\ \E n \in Capacities : table' = BlankTable(n)
  /\ pc' = "load_inputs"
  /\ UNCHANGED <<entry, circuit, accepted>>
  /\ UNCHANGED driverVars

\* MyCircuit::synthesize, first region; keygen_vk(..).unwrap() panics on Err
Synthesize_LoadInputs ==
  /\ pc = "load_inputs"
  /\ LET r == LoadInputs(circuit, table)
     IN  /\ table' = r.table
         /\ pc' = IF r.ok THEN "load_shuffles" ELSE "panicked"
  /\ UNCHANGED <<entry, circuit, accepted>>
  /\ UNCHANGED driverVars

\* MyCircuit::synthesize, second region, then Ok(())
Synthesize_LoadShuffles ==
  /\ pc = "load_shuffles"
  /\ LET r == LoadShuffles(circuit, table)
     IN  /\ table' = r.table
         /\ pc' = IF r.ok THEN "prove" ELSE "panicked"
  /\ UNCHANGED <<entry, circuit, accepted>>
  /\ UNCHANGED driverVars

\* create_proof, then verify_proof(..).unwrap_or_default(): the proof is
\* produced whatever the witness, the verifier accepts iff the argument holds
ProveAndVerify ==
  /\ pc = "prove"
  /\ accepted' = IF ShuffleHolds(table) THEN "true" ELSE "false"
  /\ pc' = "assert"
  /\ UNCHANGED <<entry, circuit, table>>
  /\ UNCHANGED driverVars

\* assert_eq!(accepted, expected)
AssertExpected ==
  /\ pc = "assert"
  /\ \E expected \in BOOLEAN :
       pc' = IF (accepted = "true") = expected THEN "returned" ELSE "panicked"
  /\ UNCHANGED <<entry, circuit, table, accepted>>
  /\ UNCHANGED driverVars

test_prover ==
  \/ NewParams
  \/ Synthesize_LoadInputs
  \/ Synthesize_LoadShuffles
  \/ ProveAndVerify
  \/ AssertExpected

\* ------------------------------------------------------------ main
\* new_default_pp, IVC::new, fold_step and verify belong to the sirius crate.
\* Each is modelled by its three possible courses: it succeeds, it fails on
\* its own (an Err, or a panic of its own), or it runs the primary step
\* circuit's synthesize_step, whose code is modelled below.  Which of its
\* operations synthesize the step circuit is decided inside the crate.
Alive == entry = "main" /\ stage \notin {"Verified", "Failed"} /\ cb = "idle"

\* an Err that is swallowed and the call tried again: main stays where it was
AbortRetried(op) == stage' = stage /\ failedAt' = op

\* .unwrap() / .expect(..) on an Err, or a panic below the call: main stops here
Abort(op) == stage' = "Failed" /\ failedAt' = op

\* the engine runs the primary step circuit's synthesize_step on a fresh table
EnterSynthesizeStep ==
  /\ cb' = "load_inputs"
  /\ table' = BlankTable(MainRows)
  /\ UNCHANGED <<stage, failedAt, step, engineErr, ret>>

\* CommitmentKey::<C1Affine>::load_or_setup_cache(..).unwrap()
LoadPrimaryKey ==
  /\ Alive /\ stage = "Uninitialized" /\ keys = 0
  /\ calls' = Append(calls, "load_primary_key")
  /\ log' = Append(log, Line("start setup primary commitment key: bn256", 0))
  /\ \E ok \in BOOLEAN :
       IF ok THEN keys' = 1 /\ UNCHANGED <<stage, failedAt, engineErr>>
       ELSE /\ Abort("load_primary_key")
            /\ engineErr' = TRUE
            /\ UNCHANGED keys
  /\ UNCHANGED <<entry, circuit, table, step, cb, ret>>
  /\ UNCHANGED proverVars

\* CommitmentKey::<C2Affine>::load_or_setup_cache(..).unwrap()
LoadSecondaryKey ==
  /\ Alive /\ stage = "Uninitialized" /\ keys = 1
  /\ calls' = Append(calls, "load_secondary_key")
  /\ log' = Append(log, Line("start setup secondary commitment key: grumpkin", 0))
  /\ \E ok \in BOOLEAN :
       IF ok THEN keys' = 2 /\ stage' = "KeysReady" /\ UNCHANGED <<failedAt, engineErr>>
       ELSE /\ Abort("load_secondary_key")
            /\ engineErr' = TRUE
            /\ UNCHANGED keys
  /\ UNCHANGED <<entry, circuit, table, step, cb, ret>>
  /\ UNCHANGED proverVars

\* new_default_pp(..): hands back the parameters, fails inside the engine, or
\* has the engine run the step circuit
NewDefaultPP ==
  /\ Alive /\ stage = "KeysReady"
  /\ calls' = Append(calls, "new_default_pp")
  /\ \E out \in {"ok", "err", "synth"} :
       CASE out = "ok" ->
              /\ stage' = "ParamsReady"
              /\ UNCHANGED <<failedAt, engineErr, cb, table, step, ret>>
         [] out = "err" ->
              /\ Abort("new_default_pp")
              /\ engineErr' = TRUE
              /\ UNCHANGED <<cb, table, step, ret>>
         [] out = "synth" -> EnterSynthesizeStep
  /\ UNCHANGED <<entry, circuit, keys, log>>
  /\ UNCHANGED proverVars

\* IVC::new(..).expect("failed to create `IVC`"); println!("ivc created")
IVCNew ==
  /\ Alive /\ stage = "ParamsReady"
  /\ calls' = Append(calls, "ivc_new")
  /\ \E out \in {"ok", "err", "synth"} :
       CASE out = "ok" ->
              /\ stage' = "Created"
              /\ log' = Append(log, Line("ivc created", 0))
              /\ UNCHANGED <<failedAt, engineErr, cb, table, step, ret>>
         [] out = "err" ->
              /\ Abort("ivc_new")
              /\ engineErr' = TRUE
              /\ UNCHANGED <<cb, table, step, ret, log>>
         [] out = "synth" -> EnterSynthesizeStep /\ UNCHANGED log
  /\ UNCHANGED <<entry, circuit, keys>>
  /\ UNCHANGED proverVars

\* the loop bound read as 1..=FOLD_STEP_COUNT
MoreStepsInclusive == step + 1 <= FOLD_STEP_COUNT

\* for step in 1..FOLD_STEP_COUNT: another pass is due
MoreSteps == step + 1 < FOLD_STEP_COUNT

\* a result that is dropped instead of unwrapped: main carries on
FoldFailureIgnored(op) ==
  /\ stage' = "Folding"
  /\ step' = step + 1
  /\ log' = Append(log, Line("folding step was successful", step + 1))
  /\ UNCHANGED failedAt

\* ivc.fold_step(..).expect("failed to run fold step") on an Err
FoldFailure(op) == Abort(op) /\ UNCHANGED <<step, log>>

\* one pass of the loop: ivc.fold_step(..).expect(..); println!(..)
FoldStep ==
  /\ Alive /\ stage \in {"Created", "Folding"} /\ MoreSteps
  /\ calls' = Append(calls, "fold_step")
  /\ \E out \in {"ok", "err", "synth"} :
       CASE out = "ok" ->
              /\ stage' = "Folding"
              /\ step' = step + 1
              /\ log' = Append(log, Line("folding step was successful", step + 1))
              /\ UNCHANGED <<failedAt, engineErr, cb, table, ret>>
         [] out = "err" ->
              /\ FoldFailure("fold_step")
              /\ engineErr' = TRUE
              /\ UNCHANGED <<cb, table, ret>>
         [] out = "synth" -> EnterSynthesizeStep /\ UNCHANGED log
  /\ UNCHANGED <<entry, circuit, keys>>
  /\ UNCHANGED proverVars

\* after the loop: ivc.verify(&pp).expect(..), the two closing lines, return
Verify ==
  /\ Alive /\ stage \in {"Created", "Folding"} /\ ~MoreSteps
  /\ calls' = Append(calls, "verify")
  /\ \E ok \in BOOLEAN :
       IF ok
       THEN /\ stage' = "Verified"
            /\ log' = log \o <<Line("verification successful", 0), Line("success", 0)>>
            /\ UNCHANGED <<failedAt, engineErr>>
       ELSE /\ Abort("verify")
            /\ engineErr' = TRUE
            /\ UNCHANGED log
  /\ UNCHANGED <<entry, circuit, table, keys, step, cb, ret>>
  /\ UNCHANGED proverVars

\* ------------------------------------------------------------ synthesize_step
\* an Err of a region leaves synthesize_step through `?`; the engine call that
\* ran it fails and main's unwrap/expect stops the run
StepErr ==
  /\ ret' = [kind |-> "err", z_out |-> <<>>]
  /\ cb' = "returned"
  /\ Abort(calls[Len(calls)])

\* MyStepCircuit::synthesize_step, region "load inputs"
SynthesizeStep_LoadInputs ==
  /\ entry = "main" /\ cb = "load_inputs"
  /\ LET r == LoadInputs(circuit, table)
     IN  /\ table' = r.table
         /\ IF r.ok
            THEN cb' = "load_shuffles" /\ UNCHANGED <<stage, failedAt, ret>>
            ELSE StepErr
  /\ UNCHANGED <<entry, circuit, keys, step, engineErr, calls, log>>
  /\ UNCHANGED proverVars

\* MyStepCircuit::synthesize_step, region "load shuffles"
SynthesizeStep_LoadShuffles ==
  /\ entry = "main" /\ cb = "load_shuffles"
  /\ LET r == LoadShuffles(circuit, table)
     IN  /\ table' = r.table
         /\ IF r.ok
            THEN cb' = "todo" /\ UNCHANGED <<stage, failedAt, ret>>
            ELSE StepErr
  /\ UNCHANGED <<entry, circuit, keys, step, engineErr, calls, log>>
  /\ UNCHANGED proverVars

\* MyStepCircuit::synthesize_step ends in todo!(): it panics where z_out is
\* due, and the panic unwinds through the engine call and main
SynthesizeStep_Todo ==
  /\ entry = "main" /\ cb = "todo"
  /\ ret' = [kind |-> "panic", z_out |-> <<>>]
  /\ cb' = "panicked"
  /\ Abort(calls[Len(calls)])
  /\ UNCHANGED <<entry, circuit, table, keys, step, engineErr, calls, log>>
  /\ UNCHANGED proverVars

main ==
  \/ LoadPrimaryKey
  \/ LoadSecondaryKey
  \/ NewDefaultPP
  \/ IVCNew
  \/ FoldStep
  \/ Verify
  \/ SynthesizeStep_LoadInputs
  \/ SynthesizeStep_LoadShuffles
  \/ SynthesizeStep_Todo

Next == test_prover \/ main

Spec == Init /\ [][Next]_vars

\* ============================================================ properties
\* the pairs a circuit supplies: element i of the two vectors of a side
LeftPairs(c) ==
  [i \in 1..Min(Len(c.input_0), Len(c.input_1)) |-> <<c.input_0[i], c.input_1[i]>>]

RightPairs(c) ==
  [i \in 1..Min(Len(c.shuffle_0), Len(c.shuffle_1)) |-> <<c.shuffle_0[i], c.shuffle_1[i]>>]

CountIn(sq, p) == Cardinality({i \in DOMAIN sq : sq[i] = p})

\* r is l reordered by some permutation of the indices
IsReordering(l, r) ==
  /\ Len(l) = Len(r)
  /\ \E pi \in Permutations(DOMAIN l) : \A j \in DOMAIN l : r[j] = l[pi[j]]

\* the selector-scaled pair a row contributes to each side: (0,0) when the
\* selector is off at that row
ScaledLeft(r) ==
  IF table.s_input[r] THEN <<table.input_0[r], table.input_1[r]>> ELSE <<0, 0>>

ScaledRight(r) ==
  IF table.s_shuffle[r] THEN <<table.shuffle_0[r], table.shuffle_1[r]>> ELSE <<0, 0>>

ScaledLeftCount(p) == Cardinality({r \in Rows(table) : ScaledLeft(r) = p})

ScaledRightCount(p) == Cardinality({r \in Rows(table) : ScaledRight(r) = p})

ScaledLeftPairs == {ScaledLeft(r) : r \in Rows(table)}

Verdict == accepted # "none"

\* C2: completeness. Whenever the prover harness reaches a verdict on a
\* circuit whose right pairs are its left pairs reordered by a permutation of
\* the rows, the verdict is acceptance.
C2_Completeness ==
  (Verdict /\ IsReordering(LeftPairs(circuit), RightPairs(circuit)))
     => accepted = "true"

\* a circuit of two different pairs, the right side in the other order, accepted
C2_Witness ==
  /\ accepted = "true"
  /\ Len(LeftPairs(circuit)) = MaxLen
  /\ IsReordering(LeftPairs(circuit), RightPairs(circuit))
  /\ LeftPairs(circuit) # RightPairs(circuit)

\* C3 as stated: soundness over the supplied pairs. Whenever some pair is
\* supplied more often on the left than on the right, the verdict is rejection.
C3_SoundnessSuppliedPairs ==
  (Verdict /\ \E i \in DOMAIN LeftPairs(circuit) :
                 CountIn(LeftPairs(circuit), LeftPairs(circuit)[i])
                   > CountIn(RightPairs(circuit), LeftPairs(circuit)[i]))
     => accepted = "false"

\* C3 amended: soundness over the selector-scaled pairs. Whenever some pair
\* occurs more often among the selector-scaled left pairs than among the
\* selector-scaled right pairs (a row with its selector off counting as
\* (0,0)), the harness reaches the verdict "rejected" (a verdict, not a panic).
C3_SoundnessScaledPairs ==
  (Verdict /\ \E p \in ScaledLeftPairs : ScaledLeftCount(p) > ScaledRightCount(p))
     => accepted = "false"

\* a pair supplied twice on the left and once on the right, rejected
C3_Witness ==
  /\ accepted = "false"
  /\ \E p \in ScaledLeftPairs :
        /\ p # <<0, 0>>
        /\ ScaledLeftCount(p) > ScaledRightCount(p)
        /\ ScaledRightCount(p) > 0

\* C4: gate guarantee. Whenever every selector-scaled left pair occurs at
\* least as often among the selector-scaled right pairs (rows with a disabled
\* selector contributing (0,0)), the verdict is acceptance.
C4_GateGuarantee ==
  (Verdict /\ \A p \in ScaledLeftPairs : ScaledLeftCount(p) <= ScaledRightCount(p))
     => accepted = "true"

\* accepted with the two selectors enabled on different numbers of rows: the
\* disabled rows of one side stand for (0,0) pairs supplied on the other
C4_Witness ==
  /\ accepted = "true"
  /\ Cardinality({r \in Rows(table) : table.s_input[r]})
       # Cardinality({r \in Rows(table) : table.s_shuffle[r]})

Contiguous(S) == \A i \in S : \A j \in 0..i : j \in S

\* C10: region assignment. In every state of a synthesis, s_input is enabled
\* at a row iff input_0 and input_1 are both assigned there, s_shuffle iff
\* shuffle_0 and shuffle_1 are; the assigned rows of a column start at 0
\* without gaps and the two columns of a pair carry the same rows.
C10_RegionAssignment ==
  /\ \A i \in Rows(table) :
        /\ table.s_input[i] <=> (i \in table.a_input_0 /\ i \in table.a_input_1)
        /\ table.s_shuffle[i] <=> (i \in table.a_shuffle_0 /\ i \in table.a_shuffle_1)
  /\ table.a_input_0 = table.a_input_1
  /\ table.a_shuffle_0 = table.a_shuffle_1
  /\ Contiguous(table.a_input_0) /\ Contiguous(table.a_shuffle_0)
  /\ table.a_input_0 \subseteq Rows(table) /\ table.a_shuffle_0 \subseteq Rows(table)

\* both regions done on vectors of unequal length, with rows assigned
C10_Witness ==
  /\ pc = "prove"
  /\ Len(circuit.input_0) > Len(circuit.input_1)
  /\ Len(circuit.shuffle_1) > Len(circuit.shuffle_0)
  /\ table.a_input_0 # {} /\ table.a_shuffle_0 # {}

\* ------------------------------------------------------------ the fold driver
Terminal == stage \in {"Verified", "Failed"}

FoldCalls == [i \in 1..(FOLD_STEP_COUNT - 1) |-> "fold_step"]

\* every engine operation of a complete run, in program order
FullRun ==
  <<"load_primary_key", "load_secondary_key", "new_default_pp", "ivc_new">>
    \o FoldCalls \o <<"verify">>

SuccessLogged ==
  \E i \in DOMAIN log : log[i].msg \in {"verification successful", "success"}

\* the step indices main has reported, in the order printed
StepsLogged ==
  LET lines == SelectSeq(log, LAMBDA l : l.msg = "folding step was successful")
  IN  [i \in DOMAIN lines |-> lines[i].step]

\* position of a stage in Uninitialized -> KeysReady -> ParamsReady -> Created
\* -> Folding(1) -> ... -> Folding(N-1) -> Verified
Rank(st, k, n) ==
  CASE st = "Uninitialized" -> k
    [] st = "KeysReady"     -> 2
    [] st = "ParamsReady"   -> 3
    [] st = "Created"       -> 4
    [] st = "Folding"       -> 4 + n
    [] st = "Verified"      -> 4 + FOLD_STEP_COUNT
    [] OTHER                -> 0 - 1

\* C1 as stated: end to end. A run of main that has ended without any engine
\* or key-cache operation failing on its own has ended Verified.
C1_EndToEnd ==
  (entry = "main" /\ Terminal /\ ~engineErr) => stage = "Verified"

\* the data main builds does satisfy the shuffle constraint once synthesized
C1_Witness ==
  /\ entry = "main" /\ cb = "todo"
  /\ ShuffleHolds(table)
  /\ IsReordering(LeftPairs(circuit), RightPairs(circuit))

\* C8 as stated: step output. When synthesize_step has finished on a witness
\* that satisfies the shuffle, it has returned a z_out of length A whose k-th
\* element is the shuffle_0 cell of row k.
C8_StepOutput ==
  (entry = "main" /\ cb \in {"returned", "panicked"} /\ ShuffleHolds(table))
     => /\ ret.kind = "ok"
        /\ Len(ret.z_out) = A1
        /\ \A k \in 1..A1 : ret.z_out[k] = table.shuffle_0[k - 1]

\* C5: stage order. Every step of main either leaves the stage alone, moves
\* it one place forward in the order, or moves it to Failed; a call of an
\* engine operation advances, fails or is still running the step circuit (it
\* is never repeated in place); verify is called only after all N-1 fold
\* steps succeeded; nothing happens after Verified or Failed.
C5_StageOrder ==
  [][ LET r  == Rank(stage, keys, step)
          r2 == Rank(stage', keys', step')
      IN  /\ Terminal => UNCHANGED <<stage, keys, step, calls, log, failedAt>>
          /\ r2 # r => (~Terminal /\ (stage' = "Failed" \/ r2 = r + 1))
          /\ calls' # calls =>
               /\ calls' = Append(calls, calls'[Len(calls')])
               /\ stage' = "Failed" \/ r2 = r + 1 \/ cb' # "idle"
               /\ calls'[Len(calls')] = "verify" => step = FOLD_STEP_COUNT - 1
    ]_vars

\* a run that went through every stage in order and was verified
C5_Witness ==
  /\ stage = "Verified"
  /\ calls = FullRun
  /\ step = FOLD_STEP_COUNT - 1

\* C6: no partial success. The success lines are printed iff the run is
\* Verified, iff every operation of the full run was called and none failed;
\* once an operation has failed or the step circuit has panicked, the run is
\* Failed at the operation called last, and no success line is printed.
C6_NoPartialSuccess ==
  /\ SuccessLogged <=> stage = "Verified"
  /\ stage = "Verified" <=>
       (calls = FullRun /\ failedAt = "" /\ ~engineErr /\ ret.kind = "none"
          /\ cb = "idle")
  /\ (engineErr \/ ret.kind # "none") => stage = "Failed"
  /\ stage = "Failed" =>
       (failedAt = calls[Len(calls)] /\ ~SuccessLogged
          /\ (engineErr \/ ret.kind # "none"))

\* a run that failed in its third fold step: two steps reported, no success
C6_Witness ==
  /\ stage = "Failed" /\ failedAt = "fold_step"
  /\ step = 2
  /\ ~SuccessLogged

\* C9: fold count. The steps reported so far are 1, 2, .., step, one per
\* successful fold_step call; a verified run made exactly FOLD_STEP_COUNT - 1
\* fold_step calls, all after IVC::new and before the one verify call.
C9_FoldCount ==
  /\ StepsLogged = [i \in 1..step |-> i]
  /\ step <= FOLD_STEP_COUNT - 1
  /\ Cardinality({i \in DOMAIN calls : calls[i] = "fold_step"})
       \in {step, step + 1}
  /\ stage = "Verified" =>
       /\ Cardinality({i \in DOMAIN calls : calls[i] = "fold_step"})
            = FOLD_STEP_COUNT - 1
       /\ Cardinality({i \in DOMAIN calls : calls[i] = "verify"}) = 1
       /\ \A i \in DOMAIN calls : calls[i] = "fold_step" =>
             /\ \E j \in 1..(i - 1) : calls[j] = "ivc_new"
             /\ \E j \in (i + 1)..Len(calls) : calls[j] = "verify"

\* a verified run with its four fold steps reported in order
C9_Witness ==
  /\ stage = "Verified"
  /\ StepsLogged = [i \in 1..(FOLD_STEP_COUNT - 1) |-> i]
  /\ Len(calls) = 4 + FOLD_STEP_COUNT

====
